---- MODULE Spec2Model ----
(***************************************************************************)
(* fitgrid: the Epochs container (epochs.py), the older build() grid       *)
(* builder (_core.py) and the loaders / load_grid (io.py).                 *)
(*                                                                         *)
(* A DataFrame is a record: the names of its two identifying columns,      *)
(* where each one sits (index level, plain column, absent) and its rows in *)
(* storage order.  A row carries the trial identifier e, the time key t    *)
(* and the two channel values a and b.                                     *)
(***************************************************************************)
EXTENDS Integers, Sequences, FiniteSets, TLC

VARIABLES callerTable, self, pc, outcome, call, pool, grid, dists, calls, file, loaded

vars == <<callerTable, self, pc, outcome, call, pool, grid, dists, calls, file, loaded>>

----------------------------------------------------------------------------
(* Bounds of the model *)

MaxEpoch == 3
MaxTime == 2
MaxCores == 2
MaxRows == 4

----------------------------------------------------------------------------
(* Process-wide defaults imported by epochs.py *)

EPOCH_ID == "Epoch_idx"
TIME == "Time"
CHANNELS == <<"a", "b">>

NonStr == "<int>"            \* a list item that is not a str
Absent == "zz"               \* a name that is no column of any table

----------------------------------------------------------------------------
(* Generic helpers *)

Min(S) == CHOOSE x \in S : \A y \in S : x <= y

ToSet(s) == {s[i] : i \in DOMAIN s}

InSeq(x, s) == \E i \in DOMAIN s : s[i] = x

RECURSIVE SortedSeq(_)
SortedSeq(S) == IF S = {} THEN <<>>
                ELSE LET m == Min(S) IN <<m>> \o SortedSeq(S \ {m})

RECURSIVE SumSeq(_)
SumSeq(s) == IF s = <<>> THEN 0 ELSE Head(s) + SumSeq(Tail(s))

\* the items of s without repeats, in order of first occurrence (dict keys)
RECURSIVE Dedup(_)
Dedup(s) == IF s = <<>> THEN <<>>
            ELSE LET r == Dedup(SubSeq(s, 1, Len(s) - 1))
                     x == s[Len(s)]
                 IN IF InSeq(x, r) THEN r ELSE Append(r, x)

----------------------------------------------------------------------------
(* DataFrames *)

Columns(tbl) ==
    (IF tbl.ePlace = "column" THEN <<tbl.eName>> ELSE <<>>)
    \o (IF tbl.tPlace = "column" THEN <<tbl.tName>> ELSE <<>>)
    \o <<"a", "b">>

IndexNames(tbl) ==
    (IF tbl.ePlace = "index" THEN <<tbl.eName>> ELSE <<>>)
    \o (IF tbl.tPlace = "index" THEN <<tbl.tName>> ELSE <<>>)

\* the value a row holds under a column name of the container's table
Val(r, c) == IF c = "a" THEN r.a
             ELSE IF c = "b" THEN r.b
             ELSE IF c = TIME THEN r.t
             ELSE r.e

\* groupby(TIME): the keys in ascending order, each group in storage order
GroupKeys(rows) == SortedSeq({rows[i].t : i \in DOMAIN rows})

Group(rows, k) == SelectSeq(rows, LAMBDA r : r.t = k)

\* the EPOCH_ID index of a group: its trial identifiers in storage order
EpochIndexOf(rows) == [i \in DOMAIN rows |-> rows[i].e]

IsUnique(s) == \A i, j \in DOMAIN s : i # j => s[i] # s[j]

----------------------------------------------------------------------------
(* Outcomes of a call *)

Ok == [err |-> "none", what |-> "", names |-> {}, key |-> 0]

Raise(err, what, names, key) ==
    [err |-> err, what |-> what, names |-> names, key |-> key]

NoObj == [exists |-> FALSE, channels |-> <<>>, ref |-> "none",
          index |-> <<>>, columns |-> <<>>, rows |-> <<>>, epoch_index |-> <<>>]

----------------------------------------------------------------------------
(* Channel lists as passed by a caller: a list (of items), or something    *)
(* that is no list: None, the string 'default', any other object.          *)

IsListOfStr(c) == c.tag = "list" /\ \A i \in DOMAIN c.items : c.items[i] # NonStr

ListOf(items) == [tag |-> "list", items |-> items]

----------------------------------------------------------------------------
(* _core.py *)

\* as FirstDiffering, but comparing the groups' identifiers as sets
FirstDifferingAsSets(rows) ==
    LET ks == GroupKeys(rows)
        bad == {i \in 2..Len(ks) :
                  ToSet(EpochIndexOf(Group(rows, ks[i - 1])))
                    # ToSet(EpochIndexOf(Group(rows, ks[i])))}
    IN IF bad = {} THEN 0 ELSE ks[Min(bad)]

\* the loop of _check_group_indices (and of Epochs.__init__, lines 68-80): the
\* first key whose group differs from the previous group's trial identifiers
\* (Index.equals: same values in the same order), 0 when there is none
FirstDiffering(rows) ==
    LET ks == GroupKeys(rows)
        bad == {i \in 2..Len(ks) :
                  EpochIndexOf(Group(rows, ks[i - 1])) # EpochIndexOf(Group(rows, ks[i]))}
    IN IF bad = {} THEN 0 ELSE ks[Min(bad)]

_check_group_indices(rows) ==
    LET idx == FirstDiffering(rows)
    IN IF idx = 0 THEN <<TRUE, 0>> ELSE <<FALSE, idx>>

\* build up to the end of its checks
build(tbl, LHS) ==
    IF ~IsListOfStr(LHS)
    THEN Raise("EegrError", "LHS must be a list of strings", {}, 0)
    ELSE IF ~(InSeq(TIME, IndexNames(tbl)) /\ InSeq(EPOCH_ID, IndexNames(tbl)))
    THEN Raise("AssertionError", "index", {}, 0)
    ELSE LET chk == _check_group_indices(tbl.rows)
         IN IF ~chk[1]
            THEN Raise("EegrError", "snapshot differs", {}, chk[2])
            ELSE Ok

----------------------------------------------------------------------------
(* epochs.py: Epochs.__init__ *)

\* lines 34-35
ResolveChannels(channels) ==
    IF channels.tag = "default" THEN ListOf(CHANNELS) ELSE channels

\* lines 37-86: the checks, in the order the constructor makes them
InitOutcome(tbl, channels0) ==
    LET channels == ResolveChannels(channels0)
    IN IF ~IsListOfStr(channels)
       THEN Raise("FitGridError", "channels should be a list of strings", {}, 0)
       ELSE LET missing_channels == ToSet(channels.items) \ ToSet(Columns(tbl))
            IN IF missing_channels # {}
               THEN Raise("FitGridError", "channels missing", missing_channels, 0)
               ELSE IF ~InSeq(EPOCH_ID, IndexNames(tbl))
               THEN Raise("FitGridError", "must be in index", {EPOCH_ID}, 0)
               ELSE IF ~InSeq(TIME, IndexNames(tbl))
               THEN Raise("FitGridError", "must be in index", {TIME}, 0)
               ELSE LET idx == FirstDiffering(tbl.rows)
                        ks == GroupKeys(tbl.rows)
                    IN IF idx # 0
                       THEN Raise("FitGridError", "snapshot differs", {}, idx)
                       ELSE IF ks = <<>>
                       THEN Raise("AttributeError", "NoneType has no index", {}, 0)
                       ELSE IF ~IsUnique(EpochIndexOf(Group(tbl.rows, ks[Len(ks)])))
                       THEN Raise("FitGridError", "duplicate index", {EPOCH_ID}, 0)
                       ELSE Ok

\* line 62: the object the container's table lives in
AliasRef(ref) == ref

CopyRef(ref) == "own"

\* lines 62, 88-92: the state the constructor stores
NewEpochs(tbl, channels0) ==
    LET ks == GroupKeys(tbl.rows)
    IN [exists |-> TRUE,
        channels |-> ResolveChannels(channels0).items,
        ref |-> CopyRef("caller"),
        index |-> <<EPOCH_ID>>,
        columns |-> SelectSeq(IndexNames(tbl) \o Columns(tbl), LAMBDA n : n # EPOCH_ID),
        rows |-> tbl.rows,
        epoch_index |-> EpochIndexOf(Group(tbl.rows, ks[1]))]

\* the rows of the container's table: its own copy, or the caller's object
SelfRows == IF self.ref = "caller" THEN callerTable.rows ELSE self.rows

----------------------------------------------------------------------------
(* Inputs: the tables a caller can hand over.  A well-formed table is a    *)
(* full grid of nE trials by nT time keys, stored trial-major or           *)
(* time-major; the others are one fault (at either end of the table) away  *)
(* from a well-formed one.                                                 *)

Patterns == {"flat", "ramp", "spike"}

Amp(pat, e) == IF pat = "flat" THEN 1
               ELSE IF pat = "ramp" THEN e
               ELSE IF e = 1 THEN 1 ELSE 0

Row(e, t, pat) == [e |-> e, t |-> t, a |-> Amp(pat, e) * t, b |-> 0]

GridRows(nE, nT, order, pat) ==
    [k \in 1..(nE * nT) |->
        IF order = "trial_major"
        THEN Row(((k - 1) \div nT) + 1, ((k - 1) % nT) + 1, pat)
        ELSE Row(((k - 1) % nE) + 1, ((k - 1) \div nE) + 1, pat)]

Grids == {GridRows(nE, nT, order, pat) :
            nE \in 1..MaxEpoch, nT \in 1..MaxTime,
            order \in {"trial_major", "time_major"}, pat \in Patterns}

Faults(n) ==
    {[kind |-> "none", i |-> 0, j |-> 0], [kind |-> "merge", i |-> 0, j |-> 0]}
    \cup {[kind |-> k, i |-> i, j |-> 0] : k \in {"drop", "dup", "relabel"}, i \in {1, n}}
    \cup {[kind |-> "swap", i |-> p[1], j |-> p[2]] :
             p \in {q \in {<<1, 2>>, <<n - 1, n>>, <<1, n>>} : q[1] >= 1 /\ q[2] <= n}}

Faulty(rows, f) ==
    IF f.kind = "drop"
    THEN SubSeq(rows, 1, f.i - 1) \o SubSeq(rows, f.i + 1, Len(rows))
    ELSE IF f.kind = "dup" THEN Append(rows, rows[f.i])
    ELSE IF f.kind = "relabel"
    THEN [rows EXCEPT ![f.i].e = (rows[f.i].e % MaxEpoch) + 1]
    ELSE IF f.kind = "swap"
    THEN [rows EXCEPT ![f.i] = rows[f.j], ![f.j] = rows[f.i]]
    ELSE IF f.kind = "merge"
    THEN [k \in DOMAIN rows |-> [rows[k] EXCEPT !.e = IF @ = 2 THEN 1 ELSE @]]
    ELSE rows

EpochNames == {EPOCH_ID, "trial"}
TimeNames == {TIME, "ms"}
Places == {"index", "column", "absent"}

DefaultLayout == [eName |-> EPOCH_ID, tName |-> TIME, ePlace |-> "index", tPlace |-> "index"]

Layouts == [eName : EpochNames, tName : TimeNames, ePlace : Places, tPlace : Places]

DataFrame(layout, rows) ==
    [eName |-> layout.eName, tName |-> layout.tName,
     ePlace |-> layout.ePlace, tPlace |-> layout.tPlace, rows |-> rows]

InputTables ==
    UNION {{DataFrame(DefaultLayout, Faulty(g, f)) : f \in Faults(Len(g))} : g \in Grids}
    \cup {DataFrame(layout, g) : layout \in Layouts, g \in Grids}

\* every table of at most MaxRows rows over two trials and two time keys
SmallRows == [e : {1, 2}, t : {1, 2}, a : {0}, b : {0}]

AllSmallTables ==
    {DataFrame(DefaultLayout, rows) : rows \in UNION {[1..n -> SmallRows] : n \in 0..MaxRows}}

ChannelInputs ==
    {[tag |-> "default", items |-> <<>>], [tag |-> "none", items |-> <<>>]}
    \cup {ListOf(l) : l \in {<<"a">>, <<Absent>>, <<"a", NonStr>>, <<TIME>>}}

----------------------------------------------------------------------------
(* epochs.py: validation of the arguments of the fitting methods *)

\* the columns of self.table: every index level but EPOCH_ID, then the columns
SelfColumns == self.columns

\* as _validate_LHS, without the check that the items are columns
ValidateTypeOnly(LHS) ==
    IF ~IsListOfStr(LHS)
    THEN Raise("FitGridError", "LHS must be a list of strings", {}, 0)
    ELSE Ok

\* lines 94-109
_validate_LHS(LHS) ==
    IF ~IsListOfStr(LHS)
    THEN Raise("FitGridError", "LHS must be a list of strings", {}, 0)
    ELSE LET missing == ToSet(LHS.items) \ ToSet(SelfColumns)
         IN IF missing # {}
            THEN Raise("FitGridError", "LHS items missing", missing, 0)
            ELSE Ok

\* lines 111-117; RHS is None ("none"), a str ("str") or another object
_validate_RHS(RHS) ==
    IF RHS = "none" THEN Raise("FitGridError", "Specify the RHS argument", {}, 0)
    ELSE IF RHS # "str" THEN Raise("FitGridError", "RHS has to be a string", {}, 0)
    ELSE Ok

----------------------------------------------------------------------------
(* The fitting callable: a deterministic function of (group, channel) that *)
(* returns an object determined by its arguments, or raises on the cells   *)
(* in fn.fail.                                                             *)

Cell(t, ch) == [t |-> t, ch |-> ch]

NoCell == Cell(0, "")

Raises(fn, group, channel) == Cell(group[1].t, channel) \in fn.fail

Apply(fn, group, channel) ==
    [cls |-> fn.cls, lhs |-> channel, rhs |-> fn.rhs, data |-> group]

Callable(cls, rhs, fail) == [cls |-> cls, rhs |-> rhs, fail |-> fail]

\* lines 225-227, 257-262, 322-330: the callables of the adapters
_lm(RHS) == Callable("RegressionResultsWrapper", RHS, {})

_lmer(RHS) == Callable("Lmer", RHS, {})

mixed_linear_model(RHS) == Callable("MixedLM", RHS, {})

----------------------------------------------------------------------------
(* epochs.py: process_key_and_group, lines 158-161 *)

NoSeries == [name |-> 0, index |-> <<>>, values |-> <<>>]

\* the position in channels of the first call that raises, 0 when none does
FirstRaise(fn, group, channels) ==
    LET bad == {i \in DOMAIN channels : Raises(fn, group, channels[i])}
    IN IF bad = {} THEN 0 ELSE Min(bad)

SwallowErrors(key, group, fn, channels) ==
    LET good == SelectSeq(channels, LAMBDA c : ~Raises(fn, group, c))
        cols == Dedup(good)
    IN [raised |-> FALSE, error |-> NoCell,
        invoked |-> [i \in DOMAIN channels |-> Cell(key, channels[i])],
        series |-> [name |-> key, index |-> cols,
                    values |-> [i \in DOMAIN cols |-> Apply(fn, group, cols[i])]]]

\* as process_key_and_group, calling the function for the channels last to first
InvokeLastFirst(key, group, fn, channels) ==
    LET cols == Dedup(channels)
        n == Len(channels)
    IN [raised |-> FALSE, error |-> NoCell,
        invoked |-> [i \in DOMAIN channels |-> Cell(key, channels[n + 1 - i])],
        series |-> [name |-> key, index |-> cols,
                    values |-> [i \in DOMAIN cols |-> Apply(fn, group, cols[i])]]]

process_key_and_group(key, group, fn, channels) ==
    LET ff == FirstRaise(fn, group, channels)
        cols == Dedup(channels)
    IN IF ff # 0
       THEN [raised |-> TRUE, error |-> Cell(key, channels[ff]),
             invoked |-> [i \in 1..ff |-> Cell(key, channels[i])],
             series |-> NoSeries]
       ELSE [raised |-> FALSE, error |-> NoCell,
             invoked |-> [i \in DOMAIN channels |-> Cell(key, channels[i])],
             series |-> [name |-> key, index |-> cols,
                         values |-> [i \in DOMAIN cols |-> Apply(fn, group, cols[i])]]]

\* lines 221-223: pd.concat(results, axis=1).T, wrapped with the epoch index
NoGrid == [exists |-> FALSE, index |-> <<>>, columns |-> <<>>, cells |-> <<>>,
           index_name |-> "", epoch_index |-> <<>>]

FitGrid(results, epoch_index) ==
    [exists |-> TRUE,
     index |-> [i \in DOMAIN results |-> results[i].name],
     columns |-> results[1].index,
     cells |-> [i \in DOMAIN results |-> results[i].values],
     index_name |-> TIME,
     epoch_index |-> epoch_index]

----------------------------------------------------------------------------
(* epochs.py: distances, lines 119-156 *)

\* a float of the result: NaN, or sqrt(num / den)
NaN == [nan |-> TRUE, num |-> 0, den |-> 0]

\* line 153: sqrt(d2) / sqrt(max); 0/0 is NaN
Scaled(d2, max) == IF max = 0 THEN NaN ELSE [nan |-> FALSE, num |-> d2, den |-> max]

Max(S) == CHOOSE x \in S : \A y \in S : y <= x

\* lines 134-152: the squared distance of each block of n_samples rows from
\* the mean block, times n_epochs squared (the reshape is by storage order)
SquaredDistances(rows, channels) ==
    LET n_channels == Len(channels)
        n_epochs == Cardinality({rows[k].e : k \in DOMAIN rows})
        n_samples == Cardinality({rows[k].t : k \in DOMAIN rows})
        values(i, j, c) == Val(rows[(i - 1) * n_samples + j], channels[c])
        total(j, c) == SumSeq([i \in 1..n_epochs |-> values(i, j, c)])
        diff(i, j, c) == n_epochs * values(i, j, c) - total(j, c)
        sq(i, c) == SumSeq([j \in 1..n_samples |-> diff(i, j, c) * diff(i, j, c)])
    IN [i \in 1..n_epochs |-> SumSeq([c \in 1..n_channels |-> sq(i, c)])]

NoSeriesOut == [exists |-> FALSE, index |-> <<>>, values |-> <<>>]

distances(rows, channels, epoch_index) ==
    LET d2 == SquaredDistances(rows, channels)
        max == Max({d2[i] : i \in DOMAIN d2})
    IN [exists |-> TRUE, index |-> epoch_index,
        values |-> [i \in DOMAIN d2 |-> Scaled(d2[i], max)]]

----------------------------------------------------------------------------
(* The state machine: one caller, one table, at most one container *)

NoCall == [method |-> "none", fn |-> Callable("", "", {}), channels |-> <<>>,
           LHS |-> [tag |-> "none", items |-> <<>>], RHS |-> "",
           parallel |-> FALSE, n_cores |-> 0, time |-> "", epoch_id |-> ""]

NoPool == [started |-> FALSE, tasks |-> <<>>, next |-> 1,
           busy |-> {}, slots |-> <<>>, results |-> <<>>]

Pending == [raised |-> FALSE, error |-> NoCell, invoked |-> <<>>, series |-> NoSeries,
            ready |-> FALSE]

Ready(r) == [raised |-> r.raised, error |-> r.error, invoked |-> r.invoked,
             series |-> r.series, ready |-> TRUE]

NoFile == [grid |-> <<>>, epoch_index |-> <<>>, time |-> ""]

NoLoaded == [cls |-> "", grid |-> <<>>, epoch_index |-> <<>>, time |-> ""]

InitWith(tables, files) ==
    /\ callerTable \in tables
    /\ self = NoObj
    /\ pc = "idle"
    /\ outcome = Ok
    /\ call = NoCall
    /\ pool = NoPool
    /\ grid = NoGrid
    /\ dists = NoSeriesOut
    /\ calls = <<>>
    /\ file \in files
    /\ loaded = NoLoaded

Init == InitWith(InputTables, {NoFile})

\* Epochs(epochs_table, channels)
EpochsNew(channels) ==
    /\ pc = "idle"
    /\ ~self.exists
    /\ call.method = "none"
    /\ LET out == InitOutcome(callerTable, channels)
       IN /\ outcome' = out
          /\ self' = IF out = Ok THEN NewEpochs(callerTable, channels) ELSE NoObj
    /\ call' = [NoCall EXCEPT !.method = "Epochs", !.LHS = channels]
    /\ UNCHANGED <<callerTable, pc, pool, grid, dists, calls, file, loaded>>

\* build(epochs, LHS, RHS), up to the end of its checks
BuildCall(LHS) ==
    /\ pc = "idle"
    /\ ~self.exists
    /\ call.method = "none"
    /\ outcome' = build(callerTable, LHS)
    /\ call' = [NoCall EXCEPT !.method = "build", !.LHS = LHS]
    /\ UNCHANGED <<callerTable, self, pc, pool, grid, dists, calls, file, loaded>>

----------------------------------------------------------------------------
(* epochs.py: run_model, lines 201-223 *)

LHSInputs ==
    {[tag |-> "none", items |-> <<>>], [tag |-> "default", items |-> <<>>]}
    \cup {ListOf(l) : l \in {<<"a">>, <<"b", "a">>, <<"a", "a">>, <<TIME>>,
                             <<Absent>>, <<"a", NonStr>>}}

RHSInputs == {"none", "nonstr", "str"}

FailSets == {{}} \cup {{Cell(t, "a")} : t \in 1..MaxTime}

\* lines 203-204 (and 247-248, 266-267, 316-317)
OrSelfChannels(LHS) == IF LHS.tag = "none" THEN ListOf(self.channels) ELSE LHS

CallableError(cell) == Raise("CallableError", "the fitting callable raised", {cell.ch}, cell.t)

\* the call as seen by the caller while it runs and after it returned
CallOf(method, fn, LHS, RHS, channels, parallel, n_cores) ==
    [method |-> method, fn |-> fn, channels |-> channels, LHS |-> LHS, RHS |-> RHS,
     parallel |-> parallel, n_cores |-> n_cores, time |-> "", epoch_id |-> ""]

\* a call that ends at once with the error out
Rejected(method, LHS, RHS, out) ==
    /\ outcome' = out
    /\ call' = CallOf(method, Callable("", "", {}), LHS, RHS, <<>>, FALSE, 0)
    /\ pc' = "idle"
    /\ pool' = NoPool
    /\ grid' = NoGrid
    /\ dists' = NoSeriesOut
    /\ calls' = <<>>
    /\ UNCHANGED <<callerTable, self, file, loaded>>

Smaller(m, n) == IF m <= n THEN m ELSE n

\* run_model(function, channels, parallel, n_cores) on behalf of method:
\* lines 203-212, then the lazy map (line 219) or the pool (lines 216-217),
\* whose n_cores workers take the partitions in key order as they get free
run_model(method, fn, LHS, RHS, channelsArg, parallel, n_cores) ==
    LET channels == OrSelfChannels(channelsArg)
        out == _validate_LHS(channels)
        gb == GroupKeys(SelfRows)
    IN IF out # Ok
       THEN Rejected(method, LHS, RHS, out)
       ELSE /\ outcome' = Ok
            /\ call' = CallOf(method, fn, LHS, RHS, channels.items, parallel, n_cores)
            /\ pc' = "running"
            /\ pool' = [started |-> parallel, tasks |-> gb,
                        next |-> IF parallel THEN Smaller(n_cores, Len(gb)) + 1 ELSE 1,
                        busy |-> IF parallel THEN 1..Smaller(n_cores, Len(gb)) ELSE {},
                        slots |-> IF parallel THEN [i \in DOMAIN gb |-> Pending] ELSE <<>>,
                        results |-> <<>>]
            /\ grid' = NoGrid
            /\ dists' = NoSeriesOut
            /\ calls' = <<>>
            /\ UNCHANGED <<callerTable, self, file, loaded>>

\* the caller holds a container and is in no call
Idle == pc = "idle" /\ self.exists

\* the container was just built: the one call of the session starts here
Fresh == Idle /\ call.method = "Epochs"

RunModel(fn, channels, parallel, n_cores) ==
    /\ Fresh
    /\ run_model("run_model", fn, channels, "", channels, parallel, n_cores)

\* lines 247-255
Lm(LHS0, RHS, parallel, n_cores) ==
    /\ Fresh
    /\ LET LHS == OrSelfChannels(LHS0)
       IN IF _validate_LHS(LHS) # Ok
          THEN Rejected("lm", LHS0, RHS, _validate_LHS(LHS))
          ELSE IF _validate_RHS(RHS) # Ok
          THEN Rejected("lm", LHS0, RHS, _validate_RHS(RHS))
          ELSE run_model("lm", _lm(RHS), LHS0, RHS, LHS, parallel, n_cores)

\* lines 264-277
Lmer(LHS0, RHS, parallel, n_cores) ==
    /\ Fresh
    /\ LET LHS == OrSelfChannels(LHS0)
       IN IF RHS # "str"
          THEN Rejected("lmer", LHS0, RHS,
                        Raise("ValueError", "Please enter a valid lmer RHS", {}, 0))
          ELSE IF _validate_LHS(LHS) # Ok
          THEN Rejected("lmer", LHS0, RHS, _validate_LHS(LHS))
          ELSE run_model("lmer", _lmer(RHS), LHS0, RHS,
                         [tag |-> "none", items |-> <<>>], parallel, n_cores)

\* lines 316-332
Mlm(LHS0, RHS) ==
    /\ Fresh
    /\ LET LHS == OrSelfChannels(LHS0)
       IN IF _validate_LHS(LHS) # Ok
          THEN Rejected("mlm", LHS0, RHS, _validate_LHS(LHS))
          ELSE IF _validate_RHS(RHS) # Ok
          THEN Rejected("mlm", LHS0, RHS, _validate_RHS(RHS))
          ELSE run_model("mlm", mixed_linear_model(RHS), LHS0, RHS, LHS, FALSE, 4)

\* the run ends: the error surfaces, or line 221-223 assembles the grid
Finish(out, results) ==
    /\ outcome' = out
    /\ grid' = IF out = Ok THEN FitGrid(results, self.epoch_index) ELSE NoGrid
    /\ pool' = [NoPool EXCEPT !.started = pool.started]
    /\ pc' = "idle"

TaskResult(i) ==
    process_key_and_group(pool.tasks[i], Group(SelfRows, pool.tasks[i]),
                          call.fn, call.channels)

\* line 219 consumed by line 221: the next partition, in key order
SerialStep ==
    /\ pc = "running"
    /\ ~call.parallel
    /\ LET i == Len(pool.results) + 1
           r == TaskResult(i)
           results == Append(pool.results, r.series)
       IN /\ calls' = calls \o r.invoked
          /\ IF r.raised THEN Finish(CallableError(r.error), <<>>)
             ELSE IF i = Len(pool.tasks) THEN Finish(Ok, results)
             ELSE /\ pool' = [pool EXCEPT !.results = results]
                  /\ UNCHANGED <<outcome, grid, pc>>
    /\ UNCHANGED <<callerTable, self, call, dists, file, loaded>>

\* imap: the result of the i-th task is the i-th result
CompletionOrder(i, done) == done + 1

ResultPosition(i, done) == i

\* the worker on partition i finishes it and takes the next one, if any; an
\* exception of the callable is sent back as the result
WorkerFinish(i) ==
    /\ pc = "running"
    /\ call.parallel
    /\ i \in pool.busy
    /\ LET r == TaskResult(i)
           done == Cardinality({k \in DOMAIN pool.slots : pool.slots[k].ready})
           more == pool.next <= Len(pool.tasks)
       IN /\ pool' = [pool EXCEPT !.busy = (@ \ {i}) \cup (IF more THEN {pool.next} ELSE {}),
                                  !.next = IF more THEN @ + 1 ELSE @,
                                  !.slots[ResultPosition(i, done)] = Ready(r)]
          /\ calls' = calls \o r.invoked
    /\ UNCHANGED <<callerTable, self, pc, outcome, call, grid, dists, file, loaded>>

\* list(pool.imap(...)): the caller takes the next result in order
Collect ==
    /\ pc = "running"
    /\ call.parallel
    /\ LET i == Len(pool.results) + 1
       IN /\ pool.slots[i].ready
          /\ LET r == pool.slots[i]
                 results == Append(pool.results, r.series)
             IN IF r.raised THEN Finish(CallableError(r.error), <<>>)
                ELSE IF i = Len(pool.tasks) THEN Finish(Ok, results)
                ELSE /\ pool' = [pool EXCEPT !.results = results]
                     /\ UNCHANGED <<outcome, grid, pc>>
    /\ UNCHANGED <<callerTable, self, call, dists, calls, file, loaded>>

\* distances()
Distances ==
    /\ Idle
    /\ call.method \in {"Epochs", "caller_mutation"}
    /\ dists' = distances(SelfRows, self.channels, self.epoch_index)
    /\ outcome' = Ok
    /\ call' = [NoCall EXCEPT !.method = "distances"]
    /\ pool' = NoPool
    /\ grid' = NoGrid
    /\ calls' = <<>>
    /\ UNCHANGED <<callerTable, self, pc, file, loaded>>

\* the caller changes its own table in place after the container was built
Mutations == {"overwrite", "reverse"}

Mutated(rows, kind) ==
    IF kind = "overwrite" THEN [k \in DOMAIN rows |-> [rows[k] EXCEPT !.a = 9]]
    ELSE [k \in DOMAIN rows |-> rows[Len(rows) + 1 - k]]

MutateCaller(kind) ==
    /\ Fresh
    /\ callerTable' = [callerTable EXCEPT !.rows = Mutated(callerTable.rows, kind)]
    /\ callerTable' # callerTable
    /\ outcome' = Ok
    /\ call' = [NoCall EXCEPT !.method = "caller_mutation"]
    /\ pool' = NoPool
    /\ grid' = NoGrid
    /\ dists' = NoSeriesOut
    /\ calls' = <<>>
    /\ UNCHANGED <<self, pc, file, loaded>>

Next ==
    \/ \E c \in ChannelInputs : EpochsNew(c)
    \/ \E c \in ChannelInputs : BuildCall(c)
    \/ \E fail \in FailSets, c \in LHSInputs, par \in BOOLEAN, n \in 1..MaxCores :
          /\ par \/ n = 1
          /\ RunModel(Callable("obj", "", fail), c, par, n)
    \/ \E c \in LHSInputs, rhs \in RHSInputs, par \in BOOLEAN, n \in 1..MaxCores :
          /\ par \/ n = 1
          /\ Lm(c, rhs, par, n)
    \/ \E c \in LHSInputs, rhs \in RHSInputs, par \in BOOLEAN, n \in 1..MaxCores :
          /\ par \/ n = 1
          /\ Lmer(c, rhs, par, n)
    \/ \E c \in LHSInputs, rhs \in RHSInputs : Mlm(c, rhs)
    \/ SerialStep
    \/ \E i \in 1..MaxTime : WorkerFinish(i)
    \/ Collect
    \/ Distances
    \/ \E kind \in Mutations : MutateCaller(kind)

Spec == Init /\ [][Next]_vars

----------------------------------------------------------------------------
(* The constructor and build alone, on every small table *)

InitValidate == InitWith(AllSmallTables, {NoFile})

NextValidate ==
    \/ \E c \in ChannelInputs : EpochsNew(c)
    \/ \E c \in ChannelInputs : BuildCall(c)

SpecValidate == InitValidate /\ [][NextValidate]_vars

----------------------------------------------------------------------------
(* io.py: the loaders *)

\* the parameters of Epochs.__init__, epochs.py line 30
InitParams == {"epochs_table", "channels"}

\* Epochs(df, time=time, epoch_id=epoch_id, channels=channels), io.py lines
\* 48, 53, 78, 106: keywords the constructor does not take are a TypeError
EpochsWithKeys(tbl, kwargs, channels) ==
    LET unexpected == kwargs \ InitParams
    IN IF unexpected # {}
       THEN Raise("TypeError", "unexpected keyword argument", unexpected, 0)
       ELSE InitOutcome(tbl, channels)

KeyArgs == {"time", "epoch_id", "channels"}

NoneName == "<None>"

\* df.set_index([epoch_id, time], inplace=True)
SetIndex(tbl) == [tbl EXCEPT !.ePlace = "index", !.tPlace = "index"]

\* lines 37-57
epochs_from_hdf(df, time, epoch_id, channels) ==
    IF time = NoneName \/ epoch_id = NoneName \/ channels.tag = "none"
    THEN Raise("FitGridError", "Please provide time, epoch_id and channels", {}, 0)
    ELSE IF InSeq(epoch_id, IndexNames(df)) /\ InSeq(time, IndexNames(df))
    THEN EpochsWithKeys(df, KeyArgs, channels)
    ELSE IF InSeq(epoch_id, Columns(df)) /\ InSeq(time, Columns(df))
    THEN EpochsWithKeys(SetIndex(df), KeyArgs, channels)
    ELSE Raise("FitGridError", "Dataset has to contain as columns or indices",
               {epoch_id, time}, 0)

\* line 78
epochs_from_dataframe(dataframe, time, epoch_id, channels) ==
    EpochsWithKeys(dataframe, KeyArgs, channels)

\* lines 99-110; versions_ok: check_pandas_pyarrow_versions does not raise
epochs_from_feather(df, time, epoch_id, channels, versions_ok) ==
    IF ~versions_ok
    THEN Raise("ImportError", "Need at least pandas 0.24.0 / pyarrow 0.12.0", {}, 0)
    ELSE IF InSeq(epoch_id, Columns(df)) /\ InSeq(time, Columns(df))
    THEN EpochsWithKeys(SetIndex(df), KeyArgs, channels)
    ELSE Raise("FitGridError", "Dataset has to contain as columns or indices",
               {epoch_id, time}, 0)

\* a loader returns: the container when the constructor raised nothing
Loader(method, tbl, time, epoch_id, channels, out) ==
    /\ pc = "idle"
    /\ ~self.exists
    /\ call.method = "none"
    /\ outcome' = out
    /\ self' = IF out = Ok THEN NewEpochs(tbl, channels) ELSE NoObj
    /\ call' = [NoCall EXCEPT !.method = method, !.LHS = channels,
                              !.time = time, !.epoch_id = epoch_id]
    /\ UNCHANGED <<callerTable, pc, pool, grid, dists, calls, file, loaded>>

FromDataframe(time, epoch_id, channels) ==
    Loader("epochs_from_dataframe", callerTable, time, epoch_id, channels,
           epochs_from_dataframe(callerTable, time, epoch_id, channels))

FromHdf(time, epoch_id, channels) ==
    Loader("epochs_from_hdf", SetIndex(callerTable), time, epoch_id, channels,
           epochs_from_hdf(callerTable, time, epoch_id, channels))

FromFeather(time, epoch_id, channels, versions_ok) ==
    Loader("epochs_from_feather", SetIndex(callerTable), time, epoch_id, channels,
           epochs_from_feather(callerTable, time, epoch_id, channels, versions_ok))

LoaderChannels == {[tag |-> "none", items |-> <<>>], ListOf(<<"a", "b">>), ListOf(<<Absent>>)}

InitIO == InitWith({DataFrame(layout, g) : layout \in Layouts, g \in Grids}, {NoFile})

NextIO ==
    \/ \E t \in TimeNames \cup {NoneName}, e \in EpochNames \cup {NoneName},
          c \in LoaderChannels : FromDataframe(t, e, c)
    \/ \E t \in TimeNames \cup {NoneName}, e \in EpochNames \cup {NoneName},
          c \in LoaderChannels : FromHdf(t, e, c)
    \/ \E t \in TimeNames \cup {NoneName}, e \in EpochNames \cup {NoneName},
          c \in LoaderChannels, ok \in BOOLEAN : FromFeather(t, e, c, ok)

SpecIO == InitIO /\ [][NextIO]_vars

----------------------------------------------------------------------------
(* io.py: load_grid, lines 127-139 *)

Classes == {"RegressionResults", "RegressionResultsWrapper", "OLSResults", "Lmer", "MixedLM"}

\* the classes a class derives from
Bases(cls) == IF cls = "OLSResults" THEN {"OLSResults", "RegressionResults"} ELSE {cls}

isinstance(cls, classes) == Bases(cls) \cap classes # {}

\* line 132: _grid.iloc[0, 0]
LastCell(g) == g[Len(g)][Len(g[Len(g)])]

Tester(g) == g[1][1]

load_grid(f) ==
    LET tester == Tester(f.grid)
    IN IF isinstance(tester, {"RegressionResults", "RegressionResultsWrapper"})
       THEN [cls |-> "LMFitGrid", grid |-> f.grid, epoch_index |-> f.epoch_index,
             time |-> f.time]
       ELSE IF isinstance(tester, {"Lmer"})
       THEN [cls |-> "LMERFitGrid", grid |-> f.grid, epoch_index |-> f.epoch_index,
             time |-> f.time]
       ELSE [cls |-> "FitGrid", grid |-> f.grid, epoch_index |-> f.epoch_index,
             time |-> f.time]

LoadGrid ==
    /\ file # NoFile
    /\ loaded = NoLoaded
    /\ loaded' = load_grid(file)
    /\ outcome' = Ok
    /\ call' = [NoCall EXCEPT !.method = "load_grid"]
    /\ UNCHANGED <<callerTable, self, pc, pool, grid, dists, calls, file>>

\* the files grid.save can have written: a full grid of cells, one row per
\* time key, one column per channel; the first row holds any mix of classes,
\* each later row one class of its own
MaxColumns == 2

SavedGridsOf(n, m) ==
    {[i \in 1..n |-> IF i = 1 THEN first ELSE [j \in 1..m |-> rest[i]]] :
        first \in [1..m -> Classes], rest \in [1..n -> Classes]}

SavedGrids ==
    UNION {SavedGridsOf(n, m) : n \in 1..MaxTime, m \in 1..MaxColumns}

SavedFiles ==
    {[grid |-> g, epoch_index |-> [i \in 1..n |-> i], time |-> TIME] :
        g \in SavedGrids, n \in 1..MaxEpoch}

InitLoad == InitWith({DataFrame(DefaultLayout, <<>>)}, SavedFiles)

NextLoad == LoadGrid

SpecLoad == InitLoad /\ [][NextLoad]_vars

----------------------------------------------------------------------------
(* Properties *)

FitMethods == {"run_model", "lm", "lmer", "mlm"}

Keys == GroupKeys(callerTable.rows)

IdsAt(rows, k) == EpochIndexOf(Group(rows, k))

\* every time partition holds the same set of trial identifiers
SameMembership(rows) ==
    \A k1, k2 \in ToSet(GroupKeys(rows)) : ToSet(IdsAt(rows, k1)) = ToSet(IdsAt(rows, k2))

\* every time partition lists the same trial identifiers in the same order
SameSequence(rows) ==
    \A k1, k2 \in ToSet(GroupKeys(rows)) : IdsAt(rows, k1) = IdsAt(rows, k2)

\* no time partition holds a trial identifier twice
NoDuplicates(rows) == \A k \in ToSet(GroupKeys(rows)) : IsUnique(IdsAt(rows, k))

\* the caller's table carries both identifying levels in its index
Indexed == InSeq(EPOCH_ID, IndexNames(callerTable)) /\ InSeq(TIME, IndexNames(callerTable))

Constructed == call.method = "Epochs" /\ call.LHS.tag = "default" /\ Indexed

Built == call.method = "build" /\ IsListOfStr(call.LHS) /\ Indexed

\* C1 as stated, on tables with at least one row: construction succeeds iff
\* all time partitions have the same set of trial identifiers and none has a
\* duplicate, and raises FitGridError otherwise; on a table without duplicates
\* build's consecutive-partition check passes iff all time partitions have the
\* same set of identifiers, and raises EegrError otherwise.
C1_MembershipOnly ==
    callerTable.rows # <<>> =>
    /\ Constructed =>
          /\ (outcome = Ok) <=> (SameMembership(callerTable.rows) /\ NoDuplicates(callerTable.rows))
          /\ outcome # Ok => outcome.err = "FitGridError"
    /\ (Built /\ NoDuplicates(callerTable.rows)) =>
          /\ (outcome = Ok) <=> SameMembership(callerTable.rows)
          /\ outcome # Ok => outcome.err = "EegrError"

\* C1 amended: Epochs.__init__ succeeds iff the table has a row, all time
\* partitions list the same trial identifiers in the same storage order and
\* no identifier repeats in a partition; it raises FitGridError when that
\* fails on a table with rows and AttributeError on a table without rows.
\* build's check succeeds iff all time partitions list the same identifiers in
\* the same order (duplicates are not looked at) and raises EegrError otherwise.
C1_Validation ==
    /\ Constructed =>
          /\ (outcome = Ok) <=> /\ callerTable.rows # <<>>
                                /\ SameSequence(callerTable.rows)
                                /\ NoDuplicates(callerTable.rows)
          /\ (outcome # Ok /\ callerTable.rows # <<>>) => outcome.err = "FitGridError"
          /\ callerTable.rows = <<>> => outcome.err = "AttributeError"
          /\ self.exists <=> outcome = Ok
    /\ Built =>
          /\ (outcome = Ok) <=> SameSequence(callerTable.rows)
          /\ outcome # Ok => outcome.err = "EegrError"

\* a table of two trials at two time keys was accepted by the constructor
C1_Witness ==
    /\ Constructed
    /\ outcome = Ok
    /\ self.exists
    /\ Len(Keys) = 2
    /\ Len(self.epoch_index) = 2

\* run_model(parallel=False) as a function of its inputs: the partitions in
\* key order, the first exception ends the run, else the grid of all results
SerialRun(rows, fn, channels, epoch_index) ==
    LET gb == GroupKeys(rows)
        rs == [i \in DOMAIN gb |-> process_key_and_group(gb[i], Group(rows, gb[i]), fn, channels)]
        bad == {i \in DOMAIN rs : rs[i].raised}
    IN IF bad # {}
       THEN [outcome |-> CallableError(rs[Min(bad)].error), grid |-> NoGrid]
       ELSE [outcome |-> Ok,
             grid |-> FitGrid([i \in DOMAIN rs |-> rs[i].series], epoch_index)]

\* a fitting call got past its argument checks and has returned or raised
Ran == pc = "idle" /\ call.method \in FitMethods /\ call.fn.cls # ""

\* C2: a parallel run ends with the grid (same rows in the same order, same
\* columns, same cells) or the error of the serial run on the same inputs,
\* whatever the number of workers and the order in which they finish.
C2_ParallelEqualsSerial ==
    Ran =>
       LET serial == SerialRun(SelfRows, call.fn, call.channels, self.epoch_index)
       IN outcome = serial.outcome /\ grid = serial.grid

\* two workers, the second partition finished first, and the grid was built
C2_Witness ==
    /\ Ran
    /\ call.parallel
    /\ call.n_cores = 2
    /\ outcome = Ok
    /\ grid.exists
    /\ Len(grid.index) = 2
    /\ calls[1].t = grid.index[2]

\* the cells of the run on which the callable raises
RaisingCells ==
    {c \in call.fn.fail : c.t \in ToSet(GroupKeys(SelfRows)) /\ InSeq(c.ch, call.channels)}

\* C3: when the callable raises for a cell, the call raises that cell's error
\* and returns no grid, in serial and in parallel mode; a grid is only ever
\* returned complete.
C3_ErrorAbortsRun ==
    /\ (Ran /\ RaisingCells # {}) =>
          /\ outcome.err = "CallableError"
          /\ \E c \in RaisingCells : outcome = CallableError(c)
          /\ ~grid.exists
    /\ pc = "running" => ~grid.exists
    /\ grid.exists =>
          /\ RaisingCells = {}
          /\ grid.index = GroupKeys(SelfRows)
          /\ \A i \in DOMAIN grid.cells : Len(grid.cells[i]) = Len(grid.columns)

\* a parallel run whose callable raised at the second time key, after the
\* cells of the first were fitted
C3_Witness ==
    /\ Ran
    /\ call.parallel
    /\ outcome.err = "CallableError"
    /\ outcome.key = 2
    /\ \E i \in DOMAIN calls : calls[i].t = 1
    /\ ~grid.exists


\* the floats of a distances() result
InUnit(v) == ~v.nan /\ 0 <= v.num /\ v.num <= v.den

IsOne(v) == ~v.nan /\ v.num = v.den

IsZero(v) == ~v.nan /\ v.num = 0

TrialIds == {SelfRows[k].e : k \in DOMAIN SelfRows}

\* all trials have the same values of the container's channels at each time key
TrialsIdentical ==
    \A i, j \in DOMAIN SelfRows :
       SelfRows[i].t = SelfRows[j].t =>
          \A c \in ToSet(self.channels) : Val(SelfRows[i], c) = Val(SelfRows[j], c)

Measured == call.method = "distances" /\ dists.exists

\* C4 as stated: distances() returns one value per trial identifier, each in
\* [0, 1], the largest exactly 1.0 unless all trials are identical, and all
\* of them 0.0 when all trials are identical.
C4_Distances ==
    Measured =>
       /\ Len(dists.values) = Cardinality(TrialIds)
       /\ ToSet(dists.index) = TrialIds
       /\ IsUnique(dists.index)
       /\ TrialsIdentical => \A i \in DOMAIN dists.values : IsZero(dists.values[i])
       /\ ~TrialsIdentical =>
             /\ \A i \in DOMAIN dists.values : InUnit(dists.values[i])
             /\ \E i \in DOMAIN dists.values : IsOne(dists.values[i])

Loaders == {"epochs_from_dataframe", "epochs_from_hdf", "epochs_from_feather"}

Present(name) == InSeq(name, IndexNames(callerTable)) \/ InSeq(name, Columns(callerTable))

\* the loader was given the names of the table's own identifying columns, a
\* full grid and channels that are columns of the table
WellFormedCall ==
    /\ call.method \in Loaders
    /\ call.epoch_id = callerTable.eName
    /\ call.time = callerTable.tName
    /\ call.LHS = ListOf(<<"a", "b">>)
    /\ IF call.method = "epochs_from_feather"
       THEN callerTable.ePlace = "column" /\ callerTable.tPlace = "column"
            /\ outcome.err # "ImportError"
       ELSE callerTable.ePlace = "index" /\ callerTable.tPlace = "index"

\* C5 as stated: a loader called with the caller's own key names and a
\* well-formed table returns a container indexed and partitioned by those
\* names; the key-name arguments make no call fail.
C5_CallerKeyNames ==
    WellFormedCall =>
       /\ outcome = Ok
       /\ self.exists
       /\ self.index = <<call.epoch_id>>
       /\ InSeq(call.time, self.columns)

IdColumnErrors == {"Dataset has to contain as columns or indices", "must be in index"}

CheckedHdf ==
    /\ call.method = "epochs_from_hdf"
    /\ call.time # NoneName
    /\ call.epoch_id # NoneName
    /\ call.LHS.tag # "none"

\* C6 as stated, for epochs_from_hdf: the identifying-column check passes
\* iff each of the two columns is an index level or a plain column, in any
\* combination; an absent column raises FitGridError naming it.
C6_IdentifyingColumns ==
    CheckedHdf =>
       /\ (Present(call.time) /\ Present(call.epoch_id)) => outcome.what \notin IdColumnErrors
       /\ ~(Present(call.time) /\ Present(call.epoch_id)) =>
             /\ outcome.err = "FitGridError"
             /\ outcome.what \in IdColumnErrors
             /\ {n \in {call.time, call.epoch_id} : ~Present(n)} \subseteq outcome.names

\* the channels the caller asked for
Requested == IF call.LHS.tag = "none" THEN self.channels ELSE call.LHS.items

\* C7 as stated: the grid of run_model, lm, lmer and mlm has the requested
\* channels as its columns, in the requested order, one row per time key and
\* at (time, channel) the callable's result for that partition and channel;
\* without LHS the container's channels are used.
C7_RequestedChannels ==
    (Ran /\ outcome = Ok /\ IsUnique(Requested)) =>
       /\ grid.exists
       /\ grid.columns = Requested
       /\ grid.index = GroupKeys(SelfRows)
       /\ \A i \in DOMAIN grid.cells : \A j \in DOMAIN Requested :
             grid.cells[i][j] = Apply(call.fn, Group(SelfRows, grid.index[i]), Requested[j])

\* the channel list breaks the rule of the constructor (a list of strings,
\* all of them columns), with the time key counted among the columns as it
\* is in the container's table
BreaksRule(LHS) ==
    ~IsListOfStr(LHS) \/ ~(ToSet(LHS.items) \subseteq (ToSet(Columns(callerTable)) \cup {TIME}))

Called == call.method \in FitMethods

AsConstructed == \E c \in ChannelInputs : self = NewEpochs(callerTable, c)

\* C8 as stated: run_model, lm, lmer or mlm called with a channel list that
\* is no list of strings or names a column the table lacks raises
\* FitGridError with the missing names at once: no call of the callable, no
\* pool, the container as it was.
C8_RejectsAtOnce ==
    (Called /\ BreaksRule(OrSelfChannels(call.LHS))) =>
       /\ pc = "idle"
       /\ outcome.err = "FitGridError"
       /\ IsListOfStr(OrSelfChannels(call.LHS)) =>
             outcome.names = ToSet(call.LHS.items) \ (ToSet(Columns(callerTable)) \cup {TIME})
       /\ calls = <<>>
       /\ ~pool.started
       /\ ~grid.exists
       /\ AsConstructed

\* C8 amended: the channel list is checked against the columns of the
\* container's table, which are the caller's columns and the time key; a list
\* that is no list of strings or names another column is rejected at once
\* with FitGridError carrying the missing names -- by lmer only when RHS is a
\* string, since lmer checks RHS first and raises ValueError for a missing or
\* non-string RHS; in every such case the callable is never called, no pool is
\* started and the container is as constructed.  Every other call gets past
\* the channel check.
C8_ChannelCheck ==
    /\ (Called /\ BreaksRule(OrSelfChannels(call.LHS))) =>
          /\ pc = "idle"
          /\ IF call.method = "lmer" /\ call.RHS # "str"
             THEN outcome.err = "ValueError"
             ELSE /\ outcome.err = "FitGridError"
                  /\ IsListOfStr(OrSelfChannels(call.LHS)) =>
                        outcome.names = ToSet(call.LHS.items) \ (ToSet(Columns(callerTable)) \cup {TIME})
          /\ calls = <<>>
          /\ ~pool.started
          /\ ~grid.exists
          /\ AsConstructed
    /\ (Called /\ ~BreaksRule(OrSelfChannels(call.LHS))) =>
          outcome.what \notin {"LHS must be a list of strings", "LHS items missing"}

\* lm was called with a channel that is no column and raised naming it
C8_Witness ==
    /\ call.method = "lm"
    /\ call.LHS = ListOf(<<Absent>>)
    /\ outcome.err = "FitGridError"
    /\ outcome.names = {Absent}
    /\ calls = <<>>

\* the class of the grid that load_grid must pick for a cell of class cls
GridClassFor(cls) ==
    IF cls \in {"RegressionResults", "RegressionResultsWrapper", "OLSResults"} THEN "LMFitGrid"
    ELSE IF cls = "Lmer" THEN "LMERFitGrid"
    ELSE "FitGrid"

\* C9: load_grid picks the grid class from the cell at row 0, column 0 and
\* passes on the persisted (grid, epoch index, time) unchanged.
C9_LoadGrid ==
    call.method = "load_grid" =>
       /\ loaded.cls = GridClassFor(file.grid[1][1])
       /\ loaded.grid = file.grid
       /\ loaded.epoch_index = file.epoch_index
       /\ loaded.time = file.time

\* a grid whose first cell is an Lmer and whose last cell is not was loaded
C9_Witness ==
    /\ call.method = "load_grid"
    /\ loaded.cls = "LMERFitGrid"
    /\ LastCell(file.grid) = "RegressionResultsWrapper"
    /\ Len(file.grid) = 2

\* C10: no step changes the container's table, channels or epoch index once it
\* is built, whatever the caller does to its own table; only the caller's own
\* mutation changes the caller's table; the container starts as a copy of it.
C10_Isolation ==
    [][/\ self.exists => (self' = self /\ SelfRows' = SelfRows)
       /\ callerTable' # callerTable => call'.method = "caller_mutation"
       /\ (~self.exists /\ self'.exists) => SelfRows' = callerTable.rows]_vars

\* the caller changed its table after the container was built from it
C10_Witness ==
    /\ self.exists
    /\ call.method = "caller_mutation"
    /\ callerTable.rows # SelfRows
    /\ SelfRows = self.rows

\* the (time, channel) pairs of a run in lexicographic order: time keys
\* ascending, and under each time key the channel list as given
Lexicographic(keys, channels) ==
    LET n == Len(channels)
    IN [k \in 1..(Len(keys) * n) |->
           Cell(keys[((k - 1) \div n) + 1], channels[((k - 1) % n) + 1])]

IsPrefix(s, t) == Len(s) <= Len(t) /\ s = SubSeq(t, 1, Len(s))

TimeKeys == SortedSeq({SelfRows[k].t : k \in DOMAIN SelfRows})

\* a serial fitting call got past its argument checks
SerialCall == call.method \in FitMethods /\ call.fn.cls # "" /\ ~call.parallel

TimesCalled(cell) == Cardinality({k \in DOMAIN calls : calls[k] = cell})

\* C11 as stated: a finished serial run has called the function exactly once
\* for every (time key, channel name) pair of the accepted channel list, in
\* lexicographic order.
C11_OncePerPair ==
    (SerialCall /\ pc = "idle" /\ outcome = Ok) =>
       /\ \A t \in ToSet(TimeKeys), c \in ToSet(call.channels) : TimesCalled(Cell(t, c)) = 1
       /\ calls = Lexicographic(TimeKeys, Dedup(call.channels))

\* C11 amended: in serial mode the calls made so far are the first calls of
\* the lexicographic sequence over (ascending time key, entry of the channel
\* list as given), one call per entry, so a name listed twice is called twice
\* per time key; all calls of a time key are made before its row is recorded;
\* a run that ends well has made all of them, and the cell at (time, channel)
\* holds the function's result for that partition and channel; a run that
\* ends in an error of the function made no call after the one that raised.
C11_SerialOrder ==
    SerialCall =>
       LET all == Lexicographic(TimeKeys, call.channels)
       IN /\ IsPrefix(calls, all)
          /\ pc = "running" => Len(calls) = Len(pool.results) * Len(call.channels)
          /\ (pc = "idle" /\ outcome = Ok) =>
                /\ calls = all
                /\ IsUnique(call.channels) =>
                      \A k \in DOMAIN all : TimesCalled(all[k]) = 1
                /\ grid.index = TimeKeys
                /\ grid.columns = Dedup(call.channels)
                /\ \A i \in DOMAIN grid.index : \A j \in DOMAIN grid.columns :
                      grid.cells[i][j] =
                         Apply(call.fn, Group(SelfRows, grid.index[i]), grid.columns[j])
          /\ (pc = "idle" /\ outcome # Ok) =>
                /\ calls # <<>>
                /\ calls[Len(calls)] \in call.fn.fail
                /\ \A k \in 1..(Len(calls) - 1) : calls[k] \notin call.fn.fail

\* a serial run over a table that stores time key 2 first, with the channels
\* asked for in the order b, a, has ended well
C11_Witness ==
    /\ SerialCall
    /\ pc = "idle"
    /\ outcome = Ok
    /\ SelfRows[1].t = 2
    /\ call.channels = <<"b", "a">>
    /\ calls = <<Cell(1, "b"), Cell(1, "a"), Cell(2, "b"), Cell(2, "a")>>

\* the value of channel c in the one row of trial e at time key t
TrialValue(e, t, c) ==
    Val(CHOOSE r \in ToSet(SelfRows) : r.e = e /\ r.t = t, c)

\* the squared distance of trial e from the mean trial, over all time keys and
\* all container channels, times the number of trials squared
TrialSquaredDistance(e) ==
    LET ids == self.epoch_index
        total(t, c) == SumSeq([i \in DOMAIN ids |-> TrialValue(ids[i], t, c)])
        diff(t, c) == Len(ids) * TrialValue(e, t, c) - total(t, c)
        sq(c) == SumSeq([j \in DOMAIN TimeKeys |-> diff(TimeKeys[j], c) * diff(TimeKeys[j], c)])
    IN SumSeq([c \in DOMAIN self.channels |-> sq(self.channels[c])])

\* the table stores each trial's rows together, time keys in one order
TrialMajor ==
    LET n == Len(TimeKeys)
    IN \A k \in DOMAIN SelfRows :
          /\ SelfRows[k].e = self.epoch_index[((k - 1) \div n) + 1]
          /\ SelfRows[k].t = SelfRows[((k - 1) % n) + 1].t

\* two floats of a distances() result are the same number
SameFloat(v, w) == /\ v.nan = w.nan
                   /\ ~v.nan => v.num * w.den = w.num * v.den

\* C12 as stated: for every accepted table, whatever the order of its rows,
\* distances() reports under trial identifier e the scaled distance computed
\* from the rows of trial e, and its labels are the stored epoch index.
C12_DistancesPerTrial ==
    Measured =>
       LET d2 == [i \in DOMAIN self.epoch_index |-> TrialSquaredDistance(self.epoch_index[i])]
           max == Max({d2[i] : i \in DOMAIN d2})
       IN /\ dists.index = self.epoch_index
          /\ DOMAIN dists.values = DOMAIN d2
          /\ \A i \in DOMAIN d2 : SameFloat(dists.values[i], Scaled(d2[i], max))

====
